---- MODULE Spec2Model ----
(***************************************************************************)
(* State-machine model of public/app/features/admin/Users/OrgUsersTable.tsx *)
(* (OrgUsersTable, CorrelationFormNavigation, TraceView and the hook        *)
(* useFocusSpanLink).  Ids are modelled as small naturals: span ids are     *)
(* 1..MaxSpans, trace ids 1..MaxTraceIds, and 0 stands for JavaScript's     *)
(* undefined where an id is expected; "undefined" stands for it where a     *)
(* string is expected.                                                      *)
(***************************************************************************)
EXTENDS Integers, Sequences, FiniteSets, TLC

VARIABLES
  \* ---- the explore store (state.explore.panes), shared and external
  panes,          \* [ExploreIds -> [queries: Seq(query), trace: panel state]]
  \* ---- props of TraceView handed to useFocusSpanLink as `options`
  options,        \* [refId, datasource, splitOpenFn]
  \* ---- what the last render of useFocusSpanLink closed over
  panelState,     \* useSelector(... panelsState.trace)            (line 541)
  focusedSpanId,  \* panelState?.spanId                            (line 542)
  query,          \* useSelector(... queries.find(refId matches))  (line 553)
  renderPending,  \* the store changed and the subscribed hook has not re-rendered yet
  \* ---- observation of the last click on a focus link
  lastClick,      \* what was clicked, on which state, and the calls it made
  prevClick       \* the click before it, when both changed the focus in place and
                  \* nothing else happened in between

focusVars == <<panes, options, panelState, focusedSpanId, query, renderPending,
               lastClick, prevClick>>

VARIABLES
  \* ---- props of TraceView
  traceProp,            \* reference of the trace object, 0 = undefined
  dataFrames,           \* props.dataFrames.length
  \* ---- state held by the hooks TraceView calls
  childrenHiddenIDs,    \* useChildrenState()
  detailStates,         \* useDetailState(props.dataFrames[0])
  hoverIndentGuideIds,  \* useHoverIndentGuide()
  viewRange,            \* useViewRange()
  search,               \* useSearch(traceProp?.spans)
  criticalPathMemo,     \* last argument and result of memoizedTraceCriticalPath
  \* ---- what the last render produced
  rendered,             \* the view and the bundle handed to the renderer
  undefinedInputCalls,  \* derivations the last render called with undefined input
  \* ---- observation
  criticalPathComputed, \* the last render computed the critical path anew
  sameTraceObject,      \* the last render got the trace object of the render before
  switched,             \* the last render changed the displayed trace id
  lastCollapse          \* the last expandAll or collapseAll: the set an expandAll
                        \* cleared (from), then what collapseAll alone makes of
                        \* that set (set)

viewVars == <<traceProp, dataFrames, childrenHiddenIDs, detailStates,
              hoverIndentGuideIds, viewRange, search, criticalPathMemo, rendered,
              undefinedInputCalls, criticalPathComputed, sameTraceObject, switched,
              lastCollapse>>

VARIABLES
  \* ---- OrgUsersTable
  mounted,         \* the component is mounted and its effect has run
  orgId,           \* props.orgId
  roleOptions,     \* useState<Role[]>([])
  pendingFetches,  \* the orgIds of the fetchRoleOptions calls awaited, oldest first
  contextSrv,      \* what contextSrv answers: licensedAccessControlEnabled(),
                   \* hasPermission(ActionRolesList) ("yes", "no" or "throws")
  \* ---- observation
  lastFetch,       \* how the last step of fetchOptions went, and roleOptions before it
  anyResolved      \* some fetch has resolved

usersVars == <<mounted, orgId, roleOptions, pendingFetches, contextSrv, lastFetch,
               anyResolved>>

VARIABLES
  \* ---- observation of the detail toggles
  lastToggle       \* the detail key toggled last, how many times in a row (1 or 2),
                   \* and whether it was expanded before the first of them

detailVars == <<lastToggle>>

VARIABLES
  \* ---- observation of the search
  searchCleared    \* TRUE when the last call was setSearch("")

searchVars == <<searchCleared>>

VARIABLES
  \* ---- observation of the view range
  lastRangeOp      \* the view range update called last, its argument and the
                   \* view range before it

rangeVars == <<lastRangeOp>>

VARIABLES
  \* ---- OrgUsersTable: removal of a user
  userToRemove,    \* useState: the user the confirmation modal is open for, or NoUser
  canRemove,       \* per user: hasPermissionInMetadata(OrgUsersRemove, user)
  deleteClicks,    \* observation: clicks on a delete button so far
  removeCalls,     \* observation: calls of onRemoveUser so far
  lastRemoveEvent  \* observation: the last click, the user the modal was open for
                   \* before it, and the user onRemoveUser was called with

removeVars == <<userToRemove, canRemove, deleteClicks, removeCalls, lastRemoveEvent>>

VARIABLES
  \* ---- observation of the role option fetches
  anyRejected      \* TRUE once a fetch has rejected

raceVars == <<anyRejected>>

VARIABLES
  \* ---- OrgUsersTable: one row of the table
  rowUser,         \* the user of the row
  featureToggles,  \* config.featureToggles
  renderedRow      \* what the role, info and delete cells of the row display

rowVars == <<rowUser, featureToggles, renderedRow>>

VARIABLES
  \* ---- CorrelationFormNavigation
  wizard,          \* the wizard context: number of pages and current page
  formContext,     \* the correlations form context: readOnly, loading, correlation
  renderedNav,     \* the buttons CorrelationFormNavigation displays
  lastNavEvent     \* observation: what made the component render last

navVars == <<wizard, formContext, renderedNav, lastNavEvent>>

extraVars == <<detailVars, searchVars, rangeVars, removeVars, raceVars, rowVars, navVars>>
navRest == <<detailVars, searchVars, rangeVars, removeVars, raceVars, rowVars>>
rowRest == <<detailVars, searchVars, rangeVars, removeVars, raceVars, navVars>>
\* The observations a part leaves alone.
viewRest == <<detailVars, rangeVars, removeVars, raceVars, rowVars, navVars>>
detailRest == <<searchVars, rangeVars, removeVars, raceVars, rowVars, navVars>>
rangeRest == <<detailVars, searchVars, removeVars, raceVars, rowVars, navVars>>
usersRest == <<detailVars, searchVars, rangeVars, removeVars, rowVars, navVars>>
removeRest == <<detailVars, searchVars, rangeVars, raceVars, rowVars, navVars>>

vars == <<focusVars, viewVars, usersVars, extraVars>>

\* ------------------------------------------------------------------ bounds
MaxSpans == 3
MaxTraceIds == 2

MaxOrgs == 3
MaxPending == 2

\* ------------------------------------------------------------------ values
UndefId == 0
UndefStr == "undefined"
SpanIds == 1..MaxSpans
TraceIds == 1..MaxTraceIds
RefIds == {"A", "B"}
QueryTypes == {"traceql", "traceqlSearch"}
ExploreIds == {"left", "right"}
\* options.exploreId: the pane this TraceView is shown in
exploreId == "left"

\* A query object; present = FALSE is `undefined` (find() found nothing).
NoQuery == [present |-> FALSE, refId |-> UndefStr, queryType |-> UndefStr, query |-> UndefId]
Queries == [present : {TRUE}, refId : RefIds, queryType : QueryTypes, query : TraceIds]

\* panelsState.trace of a pane; present = FALSE is `undefined`.  `other` stands
\* for every field of the trace panel state that is not spanId.
NoPanelState == [present |-> FALSE, spanId |-> UndefId, other |-> UndefStr]
PanelStates == {NoPanelState} \cup
               [present : {TRUE}, spanId : SpanIds \cup {UndefId}, other : {UndefStr, "kept"}]

NoDatasource == [present |-> FALSE, uid |-> UndefStr, name |-> UndefStr]
TheDatasource == [present |-> TRUE, uid |-> "tempo-uid", name |-> "Tempo"]

\* The query lists a pane can hold: refIds are unique within a pane.
QueryLists == {<<>>} \cup {<<q>> : q \in Queries}
              \cup {<<q1, q2>> : q1 \in {q \in Queries : q.refId = "A"},
                                 q2 \in {q \in Queries : q.refId = "B" /\ q.queryType = "traceql"}}

OtherPanelStates == {NoPanelState} \cup
                    [present : {TRUE}, spanId : {1}, other : {UndefStr}]

Options == [refId : RefIds \cup {UndefStr},
            datasource : {NoDatasource, TheDatasource},
            splitOpenFn : BOOLEAN]

\* ------------------------------------------------ useFocusSpanLink (hook)

\* queries.find((query) => query.refId === options.refId): the first match,
\* or undefined.
RECURSIVE find(_, _)
find(qs, refId) ==
  IF qs = <<>> THEN NoQuery
  ELSE IF Head(qs).refId = refId THEN Head(qs)
  ELSE find(Tail(qs), refId)

\* What one render of the hook reads from the store.
SelectPanelState(ps) == ps[exploreId].trace
SelectQuery(ps, opts) == find(ps[exploreId].queries, opts.refId)

\* setFocusedSpanId: the action it dispatches,
\* changePanelState(exploreId, 'trace', {...panelState, spanId}).
\* Variant with a seeded fault: the panel state written holds the span id only.
setFocusedSpanIdAlone(spanId) ==
  [exploreId |-> exploreId, panel |-> "trace",
   state |-> [present |-> TRUE, spanId |-> spanId, other |-> UndefStr]]

setFocusedSpanId(spanId) ==
  [exploreId |-> exploreId, panel |-> "trace",
   state |-> [present |-> TRUE, spanId |-> spanId, other |-> panelState.other]]

\* {...query, query: traceId}: the closed-over query with its query string replaced.
QueryFor(traceId) ==
  [refId |-> query.refId, queryType |-> query.queryType, query |-> traceId]

\* Variant with a seeded fault: a missing datasource is replaced by a default one.
FocusDataLinkDefaultDatasource(traceId, spanId) ==
  [title |-> "Deep link to this span",
   url |-> "",
   internal |-> [datasourceUid |-> IF options.datasource.present
                                   THEN options.datasource.uid ELSE "default",
                 datasourceName |-> IF options.datasource.present
                                    THEN options.datasource.name ELSE "default",
                 query |-> QueryFor(traceId),
                 panelsState |-> [trace |-> [spanId |-> spanId]]]]

\* const link: DataLink = {...}
FocusDataLink(traceId, spanId) ==
  [title |-> "Deep link to this span",
   url |-> "",
   internal |-> [datasourceUid |-> options.datasource.uid,
                 datasourceName |-> options.datasource.name,
                 query |-> QueryFor(traceId),
                 panelsState |-> [trace |-> [spanId |-> spanId]]]]

\* query?.queryType === 'traceql' && query.query === traceId
sameTrace(traceId) == query.queryType = "traceql" /\ query.query = traceId

\* Variant with a seeded fault: the query is passed on with its own query string.
SplitOpenRequestKeepsQuery(traceId, spanId) ==
  [datasourceUid |-> options.datasource.uid,
   queries |-> <<[refId |-> query.refId, queryType |-> query.queryType,
                  query |-> query.query]>>,
   panelsState |-> [trace |-> [spanId |-> spanId]]]

\* The argument of options.splitOpenFn(...)
SplitOpenRequest(traceId, spanId) ==
  [datasourceUid |-> options.datasource.uid,
   queries |-> <<QueryFor(traceId)>>,
   panelsState |-> [trace |-> [spanId |-> spanId]]]

\* Variants of onClickFn with a seeded fault, used to show that the checked
\* properties depend on it: set-only instead of toggle; clearing whenever any
\* span is focused; focusing in place as well as opening the split view.
onClickFnSetOnly(traceId, spanId) ==
  IF sameTrace(traceId)
  THEN [handler |-> TRUE, dispatch |-> <<setFocusedSpanId(spanId)>>, splitOpen |-> <<>>]
  ELSE IF options.splitOpenFn
  THEN [handler |-> TRUE, dispatch |-> <<>>,
        splitOpen |-> <<SplitOpenRequest(traceId, spanId)>>]
  ELSE [handler |-> FALSE, dispatch |-> <<>>, splitOpen |-> <<>>]

onClickFnClearsAnyFocus(traceId, spanId) ==
  IF sameTrace(traceId)
  THEN [handler |-> TRUE,
        dispatch |-> <<setFocusedSpanId(IF focusedSpanId # UndefId THEN UndefId ELSE spanId)>>,
        splitOpen |-> <<>>]
  ELSE IF options.splitOpenFn
  THEN [handler |-> TRUE, dispatch |-> <<>>,
        splitOpen |-> <<SplitOpenRequest(traceId, spanId)>>]
  ELSE [handler |-> FALSE, dispatch |-> <<>>, splitOpen |-> <<>>]

onClickFnFocusAndSplit(traceId, spanId) ==
  IF sameTrace(traceId)
  THEN [handler |-> TRUE,
        dispatch |-> <<setFocusedSpanId(IF focusedSpanId = spanId THEN UndefId ELSE spanId)>>,
        splitOpen |-> <<>>]
  ELSE IF options.splitOpenFn
  THEN [handler |-> TRUE, dispatch |-> <<setFocusedSpanId(spanId)>>,
        splitOpen |-> <<SplitOpenRequest(traceId, spanId)>>]
  ELSE [handler |-> FALSE, dispatch |-> <<>>, splitOpen |-> <<>>]

\* onClickFn: the calls one click makes.  handler = FALSE is onClickFn undefined.
onClickFn(traceId, spanId) ==
  IF sameTrace(traceId)
  THEN [handler |-> TRUE,
        dispatch |-> <<setFocusedSpanId(IF focusedSpanId = spanId THEN UndefId ELSE spanId)>>,
        splitOpen |-> <<>>]
  ELSE IF options.splitOpenFn
  THEN [handler |-> TRUE, dispatch |-> <<>>,
        splitOpen |-> <<SplitOpenRequest(traceId, spanId)>>]
  ELSE [handler |-> FALSE, dispatch |-> <<>>, splitOpen |-> <<>>]

\* mapInternalLinkToExplore({link, internalLink, onClickFn, ...}): the link model
\* keeps the descriptor's title and internal target and calls onClickFn on click.
mapInternalLinkToExplore(link, onClick) ==
  [title |-> link.title, internal |-> link.internal, onClick |-> onClick]

createFocusSpanLink(traceId, spanId) ==
  mapInternalLinkToExplore(FocusDataLink(traceId, spanId), onClickFn(traceId, spanId))

\* The explore reducer's handling of changePanelState: the named pane's panel
\* state is replaced by the payload.
changePanelState(ps, a) == [ps EXCEPT ![a.exploreId].trace = a.state]

RECURSIVE Reduce(_, _)
Reduce(ps, actions) ==
  IF actions = <<>> THEN ps ELSE Reduce(changePanelState(ps, Head(actions)), Tail(actions))

\* ---------------------------------------------------------------- history
NoLink == [title |-> "", internal |-> [datasourceUid |-> UndefStr, datasourceName |-> UndefStr,
             query |-> [refId |-> UndefStr, queryType |-> UndefStr, query |-> UndefId],
             panelsState |-> [trace |-> [spanId |-> UndefId]]]]
NoClick == [kind |-> "none", traceId |-> UndefId, spanId |-> UndefId,
            before |-> NoPanelState, link |-> NoLink,
            dispatch |-> <<>>, splitOpen |-> <<>>]

\* ---------------------------------------------------------------- actions

\* One render of useFocusSpanLink: the selectors are read again.
HookRender(opts) ==
  /\ options' = opts
  /\ panelState' = SelectPanelState(panes)
  /\ focusedSpanId' = SelectPanelState(panes).spanId
  /\ query' = SelectQuery(panes, opts)
  /\ renderPending' = FALSE

\* The store changed: react-redux re-renders the subscribed component before the
\* next UI event is handled.
Render ==
  /\ renderPending
  /\ HookRender(options)
  /\ UNCHANGED <<panes, lastClick, prevClick>>

\* The parent renders TraceView with other props.
ParentRender(opts) ==
  /\ ~renderPending
  /\ opts # options
  /\ HookRender(opts)
  /\ lastClick' = NoClick
  /\ prevClick' = NoClick
  /\ UNCHANGED panes

\* A click on the link createFocusSpanLink(traceId, spanId) of the current render.
Click(traceId, spanId) ==
  /\ ~renderPending
  /\ LET l == createFocusSpanLink(traceId, spanId) IN
       /\ panes' = Reduce(panes, l.onClick.dispatch)
       /\ renderPending' = (l.onClick.dispatch # <<>>)
       /\ lastClick' = [kind |-> IF l.onClick.dispatch # <<>> THEN "focus"
                                 ELSE IF l.onClick.splitOpen # <<>> THEN "split"
                                 ELSE "nohandler",
                        traceId |-> traceId, spanId |-> spanId,
                        before |-> panes[exploreId].trace,
                        link |-> [title |-> l.title, internal |-> l.internal],
                        dispatch |-> l.onClick.dispatch,
                        splitOpen |-> l.onClick.splitOpen]
       /\ prevClick' = IF l.onClick.dispatch # <<>> /\ lastClick.kind = "focus"
                       THEN lastClick ELSE NoClick
  /\ UNCHANGED <<options, panelState, focusedSpanId, query>>

\* The pane's queries are changed by the query editor.
ChangeQueries(qs) ==
  /\ ~renderPending
  /\ qs # panes[exploreId].queries
  /\ panes' = [panes EXCEPT ![exploreId].queries = qs]
  /\ renderPending' = TRUE
  /\ lastClick' = NoClick
  /\ prevClick' = NoClick
  /\ UNCHANGED <<options, panelState, focusedSpanId, query>>

\* Another writer of the store replaces a pane's trace panel state.
ChangePanelStateElsewhere(id, ps) ==
  /\ ~renderPending
  /\ ps # panes[id].trace
  /\ panes' = changePanelState(panes, [exploreId |-> id, panel |-> "trace", state |-> ps])
  /\ renderPending' = (id = exploreId)
  /\ lastClick' = NoClick
  /\ prevClick' = NoClick
  /\ UNCHANGED <<options, panelState, focusedSpanId, query>>

InitPanes ==
  [id \in ExploreIds |-> [queries |-> <<>>, trace |-> NoPanelState]]

FocusInit ==
  /\ panes = InitPanes
  /\ options = [refId |-> "A", datasource |-> TheDatasource, splitOpenFn |-> TRUE]
  /\ panelState = SelectPanelState(panes)
  /\ focusedSpanId = SelectPanelState(panes).spanId
  /\ query = SelectQuery(panes, options)
  /\ renderPending = FALSE
  /\ lastClick = NoClick
  /\ prevClick = NoClick

\* ================================================================ TraceView

\* ---- the traces the parent can hand over ----------------------------------
\* One trace object per trace id, and one more of trace id 1: the same trace
\* fetched twice is another object with the same content.
NoTrace == 0
TraceRefs == 1..(MaxTraceIds + 1)
traceID(ref) == IF ref > MaxTraceIds THEN 1 ELSE ref

\* Every trace has the spans 1..MaxSpans, span 1 the root.  Traces with an odd
\* id are a chain 1 -> 2 -> 3 ..., those with an even id a root with leaves.
parentSpanID(tid, s) == IF s = 1 THEN 0 ELSE IF tid % 2 = 1 THEN s - 1 ELSE 1
endTime(tid, s) == IF s = 1 THEN 100 ELSE IF tid % 2 = 1 THEN 100 - 10 * (s - 1) ELSE 10 * s + 5
operationName(tid, s) == IF (tid + s) % 2 = 0 THEN "get" ELSE "put"
childSpans(tid, s) == {c \in SpanIds : parentSpanID(tid, c) = s}

\* The spans of `roots` and all their descendants.
RECURSIVE descendantClosure(_, _)
descendantClosure(tid, roots) ==
  LET more == roots \cup UNION {childSpans(tid, s) : s \in roots}
  IN IF more = roots THEN roots ELSE descendantClosure(tid, more)

\* ---- Critical Path Calculator ---------------------------------------------
\* The chain from span s downwards that follows, at each step, the child that
\* finishes last.
RECURSIVE criticalChain(_, _)
criticalChain(tid, s) ==
  IF childSpans(tid, s) = {} THEN {s}
  ELSE LET last == CHOOSE c \in childSpans(tid, s) :
                     \A d \in childSpans(tid, s) : endTime(tid, d) <= endTime(tid, c)
       IN {s} \cup criticalChain(tid, last)

\* criticalPathForTrace(trace); an undefined trace has no path.
criticalPathForTrace(ref) == IF ref = NoTrace THEN {} ELSE criticalChain(traceID(ref), 1)

NoMemo == [valid |-> FALSE, arg |-> NoTrace, result |-> {}]

\* memoizedTraceCriticalPath(trace): the result of the last call is kept and
\* returned again when the argument is the same object.
memoizedTraceCriticalPath(memo, ref) ==
  IF memo.valid /\ memo.arg = ref
  THEN [memo |-> memo, result |-> memo.result, computed |-> FALSE]
  ELSE [memo |-> [valid |-> TRUE, arg |-> ref, result |-> criticalPathForTrace(ref)],
        result |-> criticalPathForTrace(ref), computed |-> TRUE]

\* Variant with a seeded fault: the path is computed on the first render only.
criticalPathOfFirstRender(memo, ref) ==
  IF memo.valid
  THEN [memo |-> memo, result |-> memo.result, computed |-> FALSE]
  ELSE memoizedTraceCriticalPath(memo, ref)

\* const criticalPath = memoizedTraceCriticalPath(traceProp), on every render.
criticalPathOfRender(memo, ref) == memoizedTraceCriticalPath(memo, ref)

\* ---- Children Visibility Controller ---------------------------------------
collapseOne(hidden, tid, s) == hidden \cup descendantClosure(tid, {s})
expandOne(hidden, tid, s) == hidden \ descendantClosure(tid, {s})
childrenToggle(hidden, tid, s) ==
  IF s \in hidden THEN expandOne(hidden, tid, s) ELSE collapseOne(hidden, tid, s)
collapseAll(hidden, tid, roots) == descendantClosure(tid, roots)
expandAll(hidden) == {}

\* Variant with a seeded fault: the collapseAll prop is wired to a callback that
\* adds to the hidden set, as collapseOne does.
timelineCollapseAllAdds(hidden, tid, roots) == hidden \cup descendantClosure(tid, roots)

\* The callbacks handed to TraceTimelineViewer: collapseAll={collapseAll},
\* expandAll={expandAll}.
timelineCollapseAll(hidden, tid, roots) == collapseAll(hidden, tid, roots)
timelineExpandAll(hidden) == expandAll(hidden)

\* ---- Detail State Controller ------------------------------------------------
\* A detail key: span id, detail category, sub-item id (0 when the category has
\* no sub-item).  detailStates is the set of the keys that are expanded.
DetailKey(s, category, item) == <<s, category, item>>
\* An absent key is collapsed.
isExpanded(states, key) == key \in states
\* Each toggle flips the flag at its key.
toggleDetailKey(states, key) ==
  IF isExpanded(states, key) THEN states \ {key} ELSE states \cup {key}

\* Variant with a seeded fault: the toggle props are wired to callbacks that only
\* expand.
timelineDetailToggleExpands(states, key) == states \cup {key}

\* The callbacks handed to TraceTimelineViewer: detailToggle={toggleDetail},
\* detailLogsToggle={detailLogsToggle}, ... one per detail category.
timelineDetailToggle(states, key) == toggleDetailKey(states, key)

\* ---- Search ----------------------------------------------------------------
SearchQueries == {"", "get"}
\* The spans matching the query; an empty query and an undefined span list
\* match nothing.
spanFilterMatches(q, ref) ==
  IF q = "" \/ ref = NoTrace THEN {}
  ELSE {s \in SpanIds : operationName(traceID(ref), s) = q}

\* Variant with a seeded fault: the spans searched are those of the previous
\* render's trace.
searchOfStaleSpans(q, ref) == spanFilterMatches(q, traceProp)

\* useSearch(traceProp?.spans): the matches are those of the spans of the trace
\* of this render.
searchOfRender(q, ref) == spanFilterMatches(q, ref)

\* ---- View range -------------------------------------------------------------
ViewRanges == {<<0, 2>>, <<0, 1>>}
InitialViewRange == [current |-> <<0, 2>>, next |-> <<>>]
updateViewRangeTime(vr, range) == [current |-> range, next |-> <<>>]
updateNextViewRangeTime(vr, range) == [current |-> vr.current, next |-> range]

\* Variant with a seeded fault: the staging prop is wired to the committing update.
timelineUpdateNextCommits(vr, range) == updateViewRangeTime(vr, range)

\* The updates handed to TracePageHeader's consumers and TraceTimelineViewer:
\* updateNextViewRangeTime={updateNextViewRangeTime}
\* updateViewRangeTime={updateViewRangeTime}
timelineUpdateNextViewRangeTime(vr, range) == updateNextViewRangeTime(vr, range)
timelineUpdateViewRangeTime(vr, range) == updateViewRangeTime(vr, range)

\* ---- state a hook keeps from one render to the next ------------------------
\* useChildrenState(), useHoverIndentGuide() and useViewRange() are called with
\* no argument: their state is that of the mounted component and is kept
\* whatever the props are.
keptAcrossRenders(value, oldRef, newRef) == value

\* useDetailState(frame) and useSearch(spans) are handed trace data: their state
\* starts afresh when the trace id changes.
freshOnTraceChange(value, fresh, oldRef, newRef) ==
  IF oldRef # NoTrace /\ newRef # NoTrace /\ traceID(oldRef) # traceID(newRef)
  THEN fresh ELSE value

\* ---- one render of TraceView -------------------------------------------------
\* The derivations a render calls with an undefined input:
\* useSearch(traceProp?.spans) and memoizedTraceCriticalPath(traceProp) are both
\* called before the JSX tests traceProp.
callsWithUndefinedInput(ref) ==
  IF ref = NoTrace THEN {"useSearch", "memoizedTraceCriticalPath"} ELSE {}

\* props.dataFrames?.length && traceProp ? <trace view> : <No data>
viewOf(ref, frames) == IF frames > 0 /\ ref # NoTrace THEN "Trace" ELSE "NoData"

NoLastCollapse == [op |-> "none", from |-> {}, set |-> {}]

\* Renders with the given props and hook state (the primed variables are those
\* of the render).
TraceViewRender(ref, frames, hidden, detail, hover, vr, q) ==
  LET cp == criticalPathOfRender(criticalPathMemo, ref) IN
  /\ traceProp' = ref
  /\ dataFrames' = frames
  /\ childrenHiddenIDs' = hidden
  /\ detailStates' = detail
  /\ hoverIndentGuideIds' = hover
  /\ viewRange' = vr
  /\ search' = q
  /\ criticalPathMemo' = cp.memo
  /\ criticalPathComputed' = cp.computed
  /\ sameTraceObject' = (rendered.view # "Unmounted" /\ traceProp = ref)
  /\ undefinedInputCalls' = callsWithUndefinedInput(ref)
  /\ rendered' = [view |-> viewOf(ref, frames),
                  traceID |-> IF ref = NoTrace THEN 0 ELSE traceID(ref),
                  childrenHiddenIDs |-> hidden,
                  detailStates |-> detail,
                  hoverIndentGuideIds |-> hover,
                  viewRange |-> vr,
                  spanFilterMatches |-> searchOfRender(q, ref),
                  criticalPath |-> cp.result]

\* The parent renders TraceView with (possibly other) props.
PropsRender(ref, frames) ==
  /\ TraceViewRender(ref, frames,
                     keptAcrossRenders(childrenHiddenIDs, traceProp, ref),
                     freshOnTraceChange(detailStates, {}, traceProp, ref),
                     keptAcrossRenders(hoverIndentGuideIds, traceProp, ref),
                     keptAcrossRenders(viewRange, traceProp, ref),
                     freshOnTraceChange(search, "", traceProp, ref))
  /\ switched' = (traceProp # NoTrace /\ ref # NoTrace /\ traceID(traceProp) # traceID(ref))
  /\ lastCollapse' = NoLastCollapse

\* A callback of the rendered trace view changes hook state; the component
\* renders again with the same props.
Interactive == rendered.view = "Trace"
tid == traceID(traceProp)

StateRender(hidden, detail, hover, vr, q) ==
  /\ Interactive
  /\ TraceViewRender(traceProp, dataFrames, hidden, detail, hover, vr, q)
  /\ switched' = FALSE

CollapseOne(s) ==
  /\ StateRender(collapseOne(childrenHiddenIDs, tid, s), detailStates,
                 hoverIndentGuideIds, viewRange, search)
  /\ lastCollapse' = NoLastCollapse

ExpandOne(s) ==
  /\ StateRender(expandOne(childrenHiddenIDs, tid, s), detailStates,
                 hoverIndentGuideIds, viewRange, search)
  /\ lastCollapse' = NoLastCollapse

ChildrenToggle(s) ==
  /\ StateRender(childrenToggle(childrenHiddenIDs, tid, s), detailStates,
                 hoverIndentGuideIds, viewRange, search)
  /\ lastCollapse' = NoLastCollapse

\* expandAll(): the set it clears is remembered for the collapseAll that may follow.
ExpandAll ==
  /\ StateRender(timelineExpandAll(childrenHiddenIDs), detailStates,
                 hoverIndentGuideIds, viewRange, search)
  /\ lastCollapse' = [op |-> "expandAll",
                      from |-> IF lastCollapse.op = "expandAll"
                               THEN lastCollapse.from ELSE childrenHiddenIDs,
                      set |-> {}]

CollapseAll(roots) ==
  /\ StateRender(timelineCollapseAll(childrenHiddenIDs, tid, roots), detailStates,
                 hoverIndentGuideIds, viewRange, search)
  /\ lastCollapse' =
       IF lastCollapse.op = "expandAll"
       THEN [op |-> "expandAll;collapseAll",
             from |-> lastCollapse.from,
             set |-> timelineCollapseAll(lastCollapse.from, tid, roots)]
       ELSE NoLastCollapse

\* One of the detail toggles is called for the key.
DetailToggle(key) ==
  /\ StateRender(childrenHiddenIDs, timelineDetailToggle(detailStates, key),
                 hoverIndentGuideIds, viewRange, search)
  /\ lastCollapse' = NoLastCollapse

ToggleDetail(s) == DetailToggle(DetailKey(s, "detail", 0))
DetailLogsToggle(s) == DetailToggle(DetailKey(s, "logs", 0))
DetailLogItemToggle(s, item) == DetailToggle(DetailKey(s, "logItem", item))
DetailProcessToggle(s) == DetailToggle(DetailKey(s, "process", 0))
DetailReferencesToggle(s) == DetailToggle(DetailKey(s, "references", 0))
DetailReferenceItemToggle(s, item) == DetailToggle(DetailKey(s, "referenceItem", item))
DetailTagsToggle(s) == DetailToggle(DetailKey(s, "tags", 0))
DetailWarningsToggle(s) == DetailToggle(DetailKey(s, "warnings", 0))
DetailStackTracesToggle(s) == DetailToggle(DetailKey(s, "stackTraces", 0))

NoToggle == [key |-> DetailKey(0, "none", 0), count |-> 0, orig |-> FALSE]

\* What is remembered of a toggle of `key`.
ToggleObserved(key) ==
  lastToggle' =
    IF lastToggle.key = key /\ lastToggle.count = 1
    THEN [key |-> key, count |-> 2, orig |-> lastToggle.orig]
    ELSE [key |-> key, count |-> 1, orig |-> isExpanded(detailStates, key)]

AddHoverIndentGuideId(s) ==
  /\ s \notin hoverIndentGuideIds
  /\ StateRender(childrenHiddenIDs, detailStates, hoverIndentGuideIds \cup {s},
                 viewRange, search)
  /\ lastCollapse' = NoLastCollapse

RemoveHoverIndentGuideId(s) ==
  /\ s \in hoverIndentGuideIds
  /\ StateRender(childrenHiddenIDs, detailStates, hoverIndentGuideIds \ {s},
                 viewRange, search)
  /\ lastCollapse' = NoLastCollapse

UpdateViewRangeTime(range) ==
  /\ StateRender(childrenHiddenIDs, detailStates, hoverIndentGuideIds,
                 timelineUpdateViewRangeTime(viewRange, range), search)
  /\ lastCollapse' = NoLastCollapse

UpdateNextViewRangeTime(range) ==
  /\ StateRender(childrenHiddenIDs, detailStates, hoverIndentGuideIds,
                 timelineUpdateNextViewRangeTime(viewRange, range), search)
  /\ lastCollapse' = NoLastCollapse

SetSearch(q) ==
  /\ q # search
  /\ StateRender(childrenHiddenIDs, detailStates, hoverIndentGuideIds, viewRange, q)
  /\ lastCollapse' = NoLastCollapse

\* Before the first render: nothing is displayed, the hooks hold their initial state.
ViewInit ==
  /\ traceProp = NoTrace
  /\ dataFrames = 0
  /\ childrenHiddenIDs = {}
  /\ detailStates = {}
  /\ hoverIndentGuideIds = {}
  /\ viewRange = InitialViewRange
  /\ search = ""
  /\ criticalPathMemo = NoMemo
  /\ rendered = [view |-> "Unmounted", traceID |-> 0, childrenHiddenIDs |-> {},
                 detailStates |-> {}, hoverIndentGuideIds |-> {},
                 viewRange |-> InitialViewRange, spanFilterMatches |-> {},
                 criticalPath |-> {}]
  /\ undefinedInputCalls = {}
  /\ criticalPathComputed = FALSE
  /\ sameTraceObject = FALSE
  /\ switched = FALSE
  /\ lastCollapse = NoLastCollapse

\* The spans whose detail row and indent guide the user works with.
PointedSpans == {1, 2}

\* ================================================================ OrgUsersTable

OrgIds == 1..MaxOrgs
\* The role options the backend returns for an organization.
RoleOptionsOf(o) == <<o>>

NoFetch == [kind |-> "none", before |-> <<>>, logged |-> FALSE]

\* Variant with a seeded fault: the catch block empties the role options.
fetchOptionsCatchClears(options0) == [roleOptions |-> <<>>, logged |-> TRUE]

\* catch (e) { console.error('Error loading options') }: the error is logged and
\* roleOptions is not written.
fetchOptionsCatch(options0) == [roleOptions |-> options0, logged |-> TRUE]

\* let options = await fetchRoleOptions(orgId); setRoleOptions(options)
fetchOptionsResolved(options0, fetched) == [roleOptions |-> fetched, logged |-> FALSE]

\* The effect of [orgId]: runs on mount and whenever orgId changes.
FetchOptionsEffect(o) ==
  IF ~contextSrv.licensedAccessControlEnabled
  THEN /\ lastFetch' = [kind |-> "skipped", before |-> roleOptions, logged |-> FALSE]
       /\ UNCHANGED <<roleOptions, pendingFetches>>
  ELSE IF contextSrv.hasPermission = "throws"
  THEN /\ roleOptions' = fetchOptionsCatch(roleOptions).roleOptions
       /\ lastFetch' = [kind |-> "threw", before |-> roleOptions,
                        logged |-> fetchOptionsCatch(roleOptions).logged]
       /\ UNCHANGED pendingFetches
  ELSE IF contextSrv.hasPermission = "no"
  THEN /\ lastFetch' = [kind |-> "skipped", before |-> roleOptions, logged |-> FALSE]
       /\ UNCHANGED <<roleOptions, pendingFetches>>
  ELSE /\ pendingFetches' = Append(pendingFetches, o)
       /\ lastFetch' = [kind |-> "issued", before |-> roleOptions, logged |-> FALSE]
       /\ UNCHANGED roleOptions

Mount(o) ==
  /\ ~mounted
  /\ mounted' = TRUE
  /\ orgId' = o
  /\ FetchOptionsEffect(o)
  /\ UNCHANGED <<contextSrv, anyResolved>>

OrgIdChange(o) ==
  /\ mounted
  /\ o # orgId
  /\ Len(pendingFetches) < MaxPending
  /\ orgId' = o
  /\ FetchOptionsEffect(o)
  /\ UNCHANGED <<mounted, contextSrv, anyResolved>>

RemoveAt(seq, i) == SubSeq(seq, 1, i - 1) \o SubSeq(seq, i + 1, Len(seq))

\* The i-th awaited fetch resolves.
FetchResolve(i) ==
  /\ i \in DOMAIN pendingFetches
  /\ roleOptions' = fetchOptionsResolved(roleOptions, RoleOptionsOf(pendingFetches[i])).roleOptions
  /\ pendingFetches' = RemoveAt(pendingFetches, i)
  /\ lastFetch' = [kind |-> "resolved", before |-> roleOptions, logged |-> FALSE]
  /\ anyResolved' = TRUE
  /\ UNCHANGED <<mounted, orgId, contextSrv>>

\* The i-th awaited fetch rejects.
FetchReject(i) ==
  /\ i \in DOMAIN pendingFetches
  /\ roleOptions' = fetchOptionsCatch(roleOptions).roleOptions
  /\ pendingFetches' = RemoveAt(pendingFetches, i)
  /\ lastFetch' = [kind |-> "rejected", before |-> roleOptions,
                   logged |-> fetchOptionsCatch(roleOptions).logged]
  /\ UNCHANGED <<mounted, orgId, contextSrv, anyResolved>>

\* ---- CorrelationFormNavigation -----------------------------------------------
MaxPages == 3
Undefined == "undefined"
\* correlation: undefined while a correlation is added, the correlation while
\* one is edited or viewed.
Correlations == {Undefined, "correlation"}
FormContexts == [readOnly : BOOLEAN, loading : BOOLEAN, correlation : Correlations]

\* useWizardContext(): isLastPage, prevPage, and the page shown after a submit
\* of a page that is not the last.
isLastPage(w) == w.currentPage = w.numPages - 1
prevPage(w) == [w EXCEPT !.currentPage = IF @ > 0 THEN @ - 1 ELSE @]
nextPage(w) == [w EXCEPT !.currentPage = IF isLastPage(w) THEN @ ELSE @ + 1]

NoButton == [present |-> FALSE, label |-> "", disabled |-> FALSE]

\* Variant with a seeded fault: the submit button of the last page does not
\* depend on readOnly.
LastPageNextWhenReadOnly(ctx) ==
  [present |-> TRUE,
   label |-> IF ctx.correlation = Undefined THEN "Add" ELSE "Save",
   disabled |-> ctx.loading]

\* const LastPageNext = !readOnly && <Button ... disabled={loading}>
\*   {correlation === undefined ? 'Add' : 'Save'}
LastPageNext(ctx) ==
  IF ~ctx.readOnly
  THEN [present |-> TRUE,
        label |-> IF ctx.correlation = Undefined THEN "Add" ELSE "Save",
        disabled |-> ctx.loading]
  ELSE NoButton

\* const NextPage = <Button variant="primary" type="submit">Next</Button>
NextPage == [present |-> TRUE, label |-> "Next", disabled |-> FALSE]

\* What the component returns: Back when currentPage > 0, then
\* isLastPage ? LastPageNext : NextPage.
CorrelationFormNavigation(w, ctx) ==
  [present |-> TRUE,
   back |-> w.currentPage > 0,
   submit |-> IF isLastPage(w) THEN LastPageNext(ctx) ELSE NextPage]

NoNav == [present |-> FALSE, back |-> FALSE, submit |-> NoButton]

\* The component renders with the contexts.
NavRender(event, w, ctx) ==
  /\ wizard' = w
  /\ formContext' = ctx
  /\ renderedNav' = CorrelationFormNavigation(w, ctx)
  /\ lastNavEvent' = event

\* The form opens on the first page of a wizard of n pages.
OpenForm(n, ctx) ==
  /\ ~renderedNav.present
  /\ NavRender("open", [numPages |-> n, currentPage |-> 0], ctx)

\* onClick={prevPage} of the Back button.
ClickBack ==
  /\ renderedNav.present
  /\ renderedNav.back
  /\ NavRender("back", prevPage(wizard), formContext)

\* The submit button of a page that is not the last: the wizard goes on.
ClickNext ==
  /\ renderedNav.submit.present
  /\ renderedNav.submit.label = "Next"
  /\ NavRender("next", nextPage(wizard), formContext)

\* The submit button of the last page: the form is being saved.
ClickSubmit ==
  /\ renderedNav.submit.present
  /\ renderedNav.submit.label # "Next"
  /\ ~renderedNav.submit.disabled
  /\ NavRender("submit", wizard, [formContext EXCEPT !.loading = TRUE])

\* The form context provider hands over other values.
FormContextChange(ctx) ==
  /\ renderedNav.present
  /\ ctx # formContext
  /\ NavRender("context", wizard, ctx)

NavIdle ==
  /\ wizard = [numPages |-> 1, currentPage |-> 0]
  /\ formContext = [readOnly |-> FALSE, loading |-> FALSE, correlation |-> Undefined]
  /\ renderedNav = NoNav
  /\ lastNavEvent = "none"

\* ---- removal of a user --------------------------------------------------------
MaxUsers == 2
MaxClicks == 3
UserIds == 1..MaxUsers
NoUser == 0

\* {Boolean(userToRemove) && <ConfirmModal isOpen={true} ... />}
ModalOpen(user) == user # NoUser

\* onClick of the delete button of the row of `user`: setUserToRemove(original)
onClickDelete(user) == [called |-> NoUser, userToRemove |-> user]

\* Variant with a seeded fault: onConfirm leaves the modal open.
onConfirmKeepsModal(user) == [called |-> user, userToRemove |-> user]

\* onConfirm: if (!userToRemove) return; onRemoveUser(userToRemove);
\* setUserToRemove(null)
onConfirm(user) ==
  IF user = NoUser
  THEN [called |-> NoUser, userToRemove |-> user]
  ELSE [called |-> user, userToRemove |-> NoUser]

\* onDismiss: setUserToRemove(null)
onDismiss(user) == [called |-> NoUser, userToRemove |-> NoUser]

NoRemoveEvent == [kind |-> "none", user |-> NoUser, openFor |-> NoUser, called |-> NoUser]

\* A click runs its handler; the component renders again before the next click.
RemoveEvent(kind, user, result) ==
  /\ userToRemove' = result.userToRemove
  /\ removeCalls' = IF result.called # NoUser THEN removeCalls + 1 ELSE removeCalls
  /\ lastRemoveEvent' = [kind |-> kind, user |-> user, openFor |-> userToRemove,
                         called |-> result.called]

\* The delete button of a row is rendered when the user may be removed.
ClickDelete(u) ==
  /\ mounted
  /\ canRemove[u]
  /\ deleteClicks < MaxClicks
  /\ RemoveEvent("delete", u, onClickDelete(u))
  /\ deleteClicks' = deleteClicks + 1
  /\ UNCHANGED canRemove

\* The buttons of the modal exist while it is rendered.
Confirm ==
  /\ mounted
  /\ ModalOpen(userToRemove)
  /\ removeCalls <= MaxClicks
  /\ RemoveEvent("confirm", userToRemove, onConfirm(userToRemove))
  /\ UNCHANGED <<canRemove, deleteClicks>>

Dismiss ==
  /\ mounted
  /\ ModalOpen(userToRemove)
  /\ RemoveEvent("dismiss", userToRemove, onDismiss(userToRemove))
  /\ UNCHANGED <<canRemove, deleteClicks>>

\* The parent hands over users with other access control metadata.
UsersPropChange(u) ==
  /\ mounted
  /\ canRemove' = [canRemove EXCEPT ![u] = ~@]
  /\ UNCHANGED <<userToRemove, deleteClicks, removeCalls, lastRemoveEvent>>

RemoveIdle ==
  /\ userToRemove = NoUser
  /\ canRemove = [u \in UserIds |-> TRUE]
  /\ deleteClicks = 0
  /\ removeCalls = 0
  /\ lastRemoveEvent = NoRemoveEvent

\* ---- one row of the table ----------------------------------------------------
MaxLabels == 2
AuthLabels == {"grafana.com", "LDAP"}
\* An optional boolean: true, false or undefined.
OptionalBooleans == {"true", "false", "undefined"}
Truthy(b) == b = "true"
AsBoolean(b) == IF b THEN "true" ELSE "false"
\* a || b
Either(a, b) == IF Truthy(a) THEN a ELSE b

LabelLists == UNION {[1..n -> AuthLabels] : n \in 0..MaxLabels}
\* The users of a row: access control metadata, authLabels (an array or not),
\* isExternallySynced.
RowUsers ==
  [canWrite : BOOLEAN, canRemove : BOOLEAN,
   authLabels : [isArray : {TRUE}, labels : LabelLists]
                  \cup {[isArray |-> FALSE, labels |-> <<>>]},
   isExternallySynced : OptionalBooleans]

\* Array.isArray(user.authLabels) && user.authLabels.length > 0 ? user.authLabels[0] : ''
authLabelOf(user) ==
  IF user.authLabels.isArray /\ Len(user.authLabels.labels) > 0
  THEN user.authLabels.labels[1] ELSE ""

\* Variant with a seeded fault: no special case for users synced from grafana.com.
getBasicRoleDisabledAnyOrigin(user) ==
  Either(user.isExternallySynced, AsBoolean(~user.canWrite))

getBasicRoleDisabled(user) ==
  LET basicRoleDisabled == AsBoolean(~user.canWrite)
      authLabel == authLabelOf(user)
  IN IF authLabel # "grafana.com" \/ Truthy(featureToggles.gcomOnlyExternalOrgRoleSync)
     THEN Either(user.isExternallySynced, basicRoleDisabled)
     ELSE basicRoleDisabled

\* The role cell: UserRolePicker with basicRoleDisabled, or OrgRolePicker with
\* disabled.
RoleCell(user) ==
  LET basicRoleDisabled == getBasicRoleDisabled(user) IN
  IF contextSrv.licensedAccessControlEnabled
  THEN [picker |-> "UserRolePicker", disabled |-> Truthy(basicRoleDisabled)]
  ELSE [picker |-> "OrgRolePicker", disabled |-> Truthy(basicRoleDisabled)]

\* The info cell: basicRoleDisabled && <Box><Tooltip ...
InfoCell(user) ==
  LET basicRoleDisabled == getBasicRoleDisabled(user) IN
  Truthy(basicRoleDisabled)

\* The delete cell: hasPermissionInMetadata(OrgUsersRemove, original) && <Button ...
DeleteCell(user) == user.canRemove

NoRow == [present |-> FALSE, role |-> [picker |-> "none", disabled |-> FALSE],
          info |-> FALSE, delete |-> FALSE]

\* The table renders the row of the user.
RowRender(user) ==
  /\ rowUser' = user
  /\ renderedRow' = [present |-> TRUE, role |-> RoleCell(user), info |-> InfoCell(user),
                     delete |-> DeleteCell(user)]
  /\ UNCHANGED featureToggles

DefaultUser ==
  [canWrite |-> TRUE, canRemove |-> TRUE,
   authLabels |-> [isArray |-> TRUE, labels |-> <<>>], isExternallySynced |-> "false"]

RowIdle ==
  /\ rowUser = DefaultUser
  /\ featureToggles = [gcomOnlyExternalOrgRoleSync |-> "undefined"]
  /\ renderedRow = NoRow

\* Before the table renders: config and contextSrv are those of the boot data.
RowInit ==
  /\ rowUser = DefaultUser
  /\ featureToggles \in [gcomOnlyExternalOrgRoleSync : OptionalBooleans]
  /\ renderedRow = NoRow

UsersIdle ==
  /\ mounted = FALSE
  /\ orgId = 1
  /\ roleOptions = <<>>
  /\ pendingFetches = <<>>
  /\ lastFetch = NoFetch
  /\ anyResolved = FALSE

UsersInit ==
  /\ UsersIdle
  /\ contextSrv \in [licensedAccessControlEnabled : BOOLEAN,
                     hasPermission : {"yes", "no", "throws"}]

\* ================================================================ specifications

IdleContextSrv == [licensedAccessControlEnabled |-> TRUE, hasPermission |-> "yes"]

FocusNext ==
  \/ Render /\ UNCHANGED <<viewVars, usersVars, extraVars>>
  \/ \E opts \in Options : ParentRender(opts) /\ UNCHANGED <<viewVars, usersVars, extraVars>>
  \/ \E t \in TraceIds, s \in SpanIds : Click(t, s) /\ UNCHANGED <<viewVars, usersVars, extraVars>>
  \/ \E qs \in QueryLists : ChangeQueries(qs) /\ UNCHANGED <<viewVars, usersVars, extraVars>>
  \/ \E ps \in PanelStates :
        ChangePanelStateElsewhere("left", ps) /\ UNCHANGED <<viewVars, usersVars, extraVars>>
  \/ \E ps \in OtherPanelStates :
        ChangePanelStateElsewhere("right", ps) /\ UNCHANGED <<viewVars, usersVars, extraVars>>

ViewNext ==
  \/ \E ref \in TraceRefs : PropsRender(ref, 1) /\ searchCleared' = FALSE /\ UNCHANGED <<focusVars, usersVars, viewRest>>
  \/ \E frames \in 0..1 : PropsRender(NoTrace, frames) /\ searchCleared' = FALSE /\ UNCHANGED <<focusVars, usersVars, viewRest>>
  \/ \E s \in SpanIds : CollapseOne(s) /\ searchCleared' = FALSE /\ UNCHANGED <<focusVars, usersVars, viewRest>>
  \/ \E s \in SpanIds : ExpandOne(s) /\ searchCleared' = FALSE /\ UNCHANGED <<focusVars, usersVars, viewRest>>
  \/ \E s \in SpanIds : ChildrenToggle(s) /\ searchCleared' = FALSE /\ UNCHANGED <<focusVars, usersVars, viewRest>>
  \/ ExpandAll /\ searchCleared' = FALSE /\ UNCHANGED <<focusVars, usersVars, viewRest>>
  \/ \E roots \in SUBSET SpanIds : CollapseAll(roots) /\ searchCleared' = FALSE /\ UNCHANGED <<focusVars, usersVars, viewRest>>
  \/ \E s \in PointedSpans : ToggleDetail(s) /\ searchCleared' = FALSE /\ UNCHANGED <<focusVars, usersVars, viewRest>>
  \/ \E s \in PointedSpans : AddHoverIndentGuideId(s) /\ searchCleared' = FALSE /\ UNCHANGED <<focusVars, usersVars, viewRest>>
  \/ \E s \in PointedSpans : RemoveHoverIndentGuideId(s) /\ searchCleared' = FALSE /\ UNCHANGED <<focusVars, usersVars, viewRest>>
  \/ \E r \in ViewRanges : UpdateViewRangeTime(r) /\ searchCleared' = FALSE /\ UNCHANGED <<focusVars, usersVars, viewRest>>
  \/ \E r \in ViewRanges : UpdateNextViewRangeTime(r) /\ searchCleared' = FALSE /\ UNCHANGED <<focusVars, usersVars, viewRest>>
  \/ \E q \in SearchQueries : SetSearch(q) /\ searchCleared' = (q = "") /\ UNCHANGED <<focusVars, usersVars, viewRest>>

UsersNext ==
  \/ \E o \in OrgIds : Mount(o) /\ UNCHANGED <<focusVars, viewVars, usersRest, raceVars>>
  \/ \E o \in OrgIds : OrgIdChange(o) /\ UNCHANGED <<focusVars, viewVars, usersRest, raceVars>>
  \/ \E i \in 1..MaxPending : FetchResolve(i) /\ UNCHANGED <<focusVars, viewVars, usersRest, raceVars>>
  \/ \E i \in 1..MaxPending : FetchReject(i) /\ anyRejected' = TRUE /\ UNCHANGED <<focusVars, viewVars, usersRest>>

RemoveNext ==
  \/ \E o \in OrgIds :
        Mount(o) /\ UNCHANGED <<focusVars, viewVars, removeVars, removeRest>>
  \/ \E u \in UserIds : ClickDelete(u) /\ UNCHANGED <<focusVars, viewVars, usersVars, removeRest>>
  \/ Confirm /\ UNCHANGED <<focusVars, viewVars, usersVars, removeRest>>
  \/ Dismiss /\ UNCHANGED <<focusVars, viewVars, usersVars, removeRest>>
  \/ \E u \in UserIds :
        UsersPropChange(u) /\ UNCHANGED <<focusVars, viewVars, usersVars, removeRest>>

\* The span whose detail categories are toggled, and the sub-items of its logs
\* and references.
DetailSpan == 1
LogItems == {1, 2}
ReferenceItems == {1}

DetailNext ==
  \/ \E ref \in {1, 2} :
        PropsRender(ref, 1) /\ lastToggle' = NoToggle /\ UNCHANGED <<focusVars, usersVars, detailRest>>
  \/ \E s \in PointedSpans :
        ToggleDetail(s) /\ ToggleObserved(DetailKey(s, "detail", 0))
          /\ UNCHANGED <<focusVars, usersVars, detailRest>>
  \/ DetailLogsToggle(DetailSpan) /\ ToggleObserved(DetailKey(DetailSpan, "logs", 0))
        /\ UNCHANGED <<focusVars, usersVars, detailRest>>
  \/ \E i \in LogItems :
        DetailLogItemToggle(DetailSpan, i) /\ ToggleObserved(DetailKey(DetailSpan, "logItem", i))
          /\ UNCHANGED <<focusVars, usersVars, detailRest>>
  \/ DetailProcessToggle(DetailSpan) /\ ToggleObserved(DetailKey(DetailSpan, "process", 0))
        /\ UNCHANGED <<focusVars, usersVars, detailRest>>
  \/ DetailReferencesToggle(DetailSpan)
        /\ ToggleObserved(DetailKey(DetailSpan, "references", 0))
        /\ UNCHANGED <<focusVars, usersVars, detailRest>>
  \/ \E i \in ReferenceItems :
        DetailReferenceItemToggle(DetailSpan, i)
          /\ ToggleObserved(DetailKey(DetailSpan, "referenceItem", i))
          /\ UNCHANGED <<focusVars, usersVars, detailRest>>
  \/ DetailTagsToggle(DetailSpan) /\ ToggleObserved(DetailKey(DetailSpan, "tags", 0))
        /\ UNCHANGED <<focusVars, usersVars, detailRest>>
  \/ DetailWarningsToggle(DetailSpan) /\ ToggleObserved(DetailKey(DetailSpan, "warnings", 0))
        /\ UNCHANGED <<focusVars, usersVars, detailRest>>
  \/ DetailStackTracesToggle(DetailSpan)
        /\ ToggleObserved(DetailKey(DetailSpan, "stackTraces", 0))
        /\ UNCHANGED <<focusVars, usersVars, detailRest>>

NoRangeOp == [op |-> "none", range |-> <<>>, before |-> InitialViewRange]

\* What is remembered of a view range update.
RangeObserved(op, range) ==
  lastRangeOp' = [op |-> op, range |-> range, before |-> viewRange]

RangeNext ==
  \/ \E ref \in TraceRefs :
        PropsRender(ref, 1) /\ lastRangeOp' = NoRangeOp
          /\ UNCHANGED <<focusVars, usersVars, rangeRest>>
  \/ \E r \in ViewRanges :
        UpdateViewRangeTime(r) /\ RangeObserved("updateViewRangeTime", r)
          /\ UNCHANGED <<focusVars, usersVars, rangeRest>>
  \/ \E r \in ViewRanges :
        UpdateNextViewRangeTime(r) /\ RangeObserved("updateNextViewRangeTime", r)
          /\ UNCHANGED <<focusVars, usersVars, rangeRest>>

RowNext ==
  \/ \E user \in RowUsers :
        RowRender(user) /\ UNCHANGED <<focusVars, viewVars, usersVars, rowRest>>

ObservationIdle ==
  /\ lastToggle = NoToggle
  /\ lastRangeOp = NoRangeOp
  /\ RemoveIdle
  /\ anyRejected = FALSE
  /\ searchCleared = FALSE

NavNext ==
  \/ \E n \in 1..MaxPages, ctx \in FormContexts :
        OpenForm(n, ctx) /\ UNCHANGED <<focusVars, viewVars, usersVars, navRest>>
  \/ ClickBack /\ UNCHANGED <<focusVars, viewVars, usersVars, navRest>>
  \/ ClickNext /\ UNCHANGED <<focusVars, viewVars, usersVars, navRest>>
  \/ ClickSubmit /\ UNCHANGED <<focusVars, viewVars, usersVars, navRest>>
  \/ \E ctx \in FormContexts :
        FormContextChange(ctx) /\ UNCHANGED <<focusVars, viewVars, usersVars, navRest>>

ExtraIdle == ObservationIdle /\ RowIdle /\ NavIdle

RowSpecInit ==
  /\ FocusInit /\ ViewInit /\ UsersIdle
  /\ contextSrv \in [licensedAccessControlEnabled : BOOLEAN, hasPermission : {"yes"}]
  /\ ObservationIdle
  /\ RowInit
  /\ NavIdle

Init == FocusInit /\ ViewInit /\ UsersIdle /\ contextSrv = IdleContextSrv /\ ExtraIdle
UsersSpecInit == FocusInit /\ ViewInit /\ UsersInit /\ ExtraIdle

\* useFocusSpanLink and the explore store
FocusSpec == Init /\ [][FocusNext]_vars
\* TraceView and the hooks it calls
ViewSpec == Init /\ [][ViewNext]_vars
\* The detail toggles of TraceView
DetailSpec == Init /\ [][DetailNext]_vars
\* The view range of TraceView
RangeSpec == Init /\ [][RangeNext]_vars
\* OrgUsersTable: the delete buttons and the confirmation modal
RemoveSpec == Init /\ [][RemoveNext]_vars
\* CorrelationFormNavigation
NavSpec == Init /\ [][NavNext]_vars
\* OrgUsersTable: the cells of a row
RowSpec == RowSpecInit /\ [][RowNext]_vars
\* OrgUsersTable
UsersSpec == UsersSpecInit /\ [][UsersNext]_vars

\* ================================================================ properties

\* The pane's focused span id, as the store holds it.
Focus == panes[exploreId].trace.spanId

\* The pane's query for the frame's refId (refIds are unique within a pane), or
\* NoQuery when none matches.
PaneQuery ==
  LET qs == panes[exploreId].queries
      hits == {i \in DOMAIN qs : qs[i].refId = options.refId}
  IN IF hits = {} THEN NoQuery ELSE qs[CHOOSE i \in hits : \A j \in hits : i <= j]

\* The same-trace condition for a link to traceId, read from the store.
SameTraceCondition(traceId) ==
  PaneQuery.present /\ PaneQuery.queryType = "traceql" /\ PaneQuery.query = traceId

Clicked == lastClick.kind # "none"

\* C1: under the same-trace condition a click on the focus link for spanId sets
\* the pane's focus to spanId when the focus was anything else and clears it when
\* the focus was spanId; two clicks on the same span, starting from no focus and
\* with a re-render between them, end with no focus.
C1_FocusToggle ==
  /\ (Clicked /\ SameTraceCondition(lastClick.traceId)) =>
        Focus = IF lastClick.before.spanId = lastClick.spanId
                THEN UndefId ELSE lastClick.spanId
  /\ (prevClick.kind = "focus" /\ lastClick.kind = "focus"
        /\ prevClick.spanId = lastClick.spanId
        /\ prevClick.before.spanId = UndefId) => Focus = UndefId

C1_Witness ==
  /\ prevClick.kind = "focus" /\ lastClick.kind = "focus"
  /\ SameTraceCondition(lastClick.traceId)
  /\ prevClick.spanId = lastClick.spanId
  /\ prevClick.before.spanId = UndefId
  /\ lastClick.before.spanId = lastClick.spanId
  /\ Focus = UndefId

\* C2: after a same-trace click on the focus link for s1 followed by one on the
\* link for a different span s2, the pane's focus is s2, whatever it was before.
C2_SecondSpanFocused ==
  (prevClick.kind = "focus" /\ lastClick.kind = "focus"
     /\ prevClick.spanId # lastClick.spanId) => Focus = lastClick.spanId

\* The hard case: the focus was already s2 before s1 was clicked.
C2_Witness ==
  /\ prevClick.kind = "focus" /\ lastClick.kind = "focus"
  /\ prevClick.spanId # lastClick.spanId
  /\ prevClick.before.spanId = lastClick.spanId
  /\ Focus = lastClick.spanId

\* The split view the claim describes for a click on the link (traceId, spanId).
ExpectedSplitOpen(traceId, spanId) ==
  <<[datasourceUid |-> options.datasource.uid,
     queries |-> <<[refId |-> PaneQuery.refId, queryType |-> PaneQuery.queryType,
                    query |-> traceId]>>,
     panelsState |-> [trace |-> [spanId |-> spanId]]]>>

\* C3 as stated: whenever the same-trace condition does not hold, a click
\* requests a split view for traceId with panel state trace.spanId = spanId.
C3_AlwaysSplitOpen ==
  (Clicked /\ ~SameTraceCondition(lastClick.traceId)) =>
     lastClick.splitOpen = ExpectedSplitOpen(lastClick.traceId, lastClick.spanId)

\* C3 amended: when the same-trace condition does not hold and a splitOpenFn was
\* supplied, a click requests exactly that split view; when none was supplied
\* the link has no click handler and a click requests nothing.
C3_SplitOpenWhenSupplied ==
  (Clicked /\ ~SameTraceCondition(lastClick.traceId)) =>
     /\ options.splitOpenFn =>
           lastClick.splitOpen = ExpectedSplitOpen(lastClick.traceId, lastClick.spanId)
     /\ ~options.splitOpenFn =>
           (lastClick.kind = "nohandler" /\ lastClick.splitOpen = <<>>)

\* A split view requested for another trace than the pane's query names.
C3_Witness ==
  /\ lastClick.kind = "split"
  /\ PaneQuery.present /\ PaneQuery.query # lastClick.traceId
  /\ lastClick.splitOpen = ExpectedSplitOpen(lastClick.traceId, lastClick.spanId)

\* C4: a click either dispatches a focus change or calls splitOpenFn, never
\* both, and a click that opens a split view leaves the pane's trace panel state,
\* its focused span id included, as it was.
C4_FocusXorSplit ==
  Clicked =>
     /\ ~(lastClick.dispatch # <<>> /\ lastClick.splitOpen # <<>>)
     /\ lastClick.splitOpen # <<>> => panes[exploreId].trace = lastClick.before

C4_Witness ==
  /\ lastClick.kind = "split"
  /\ lastClick.dispatch = <<>>
  /\ lastClick.before.spanId # UndefId
  /\ Focus = lastClick.before.spanId

\* C8: with no datasource the link descriptor is still built, its datasource
\* uid and name are undefined, and its query string and panel state are traceId
\* and trace.spanId = spanId, as they are when a datasource is present.
C8_LinkWithoutDatasource ==
  Clicked =>
     /\ lastClick.link.title = "Deep link to this span"
     /\ lastClick.link.internal.query.query = lastClick.traceId
     /\ lastClick.link.internal.panelsState.trace.spanId = lastClick.spanId
     /\ ~options.datasource.present =>
           /\ lastClick.link.internal.datasourceUid = UndefStr
           /\ lastClick.link.internal.datasourceName = UndefStr

C8_Witness ==
  /\ Clicked
  /\ ~options.datasource.present
  /\ lastClick.link.internal.datasourceUid = UndefStr
  /\ lastClick.link.internal.query.query = lastClick.traceId
  /\ lastClick.link.internal.panelsState.trace.spanId = lastClick.spanId


\* ---------------------------------------------------------------- TraceView

Mounted == rendered.view # "Unmounted"

\* C5: a render with an undefined trace shows 'No data' and calls no derivation
\* (critical path, search) with an undefined input.
C5_NoDerivationOnUndefinedTrace ==
  (Mounted /\ traceProp = NoTrace) =>
     (rendered.view = "NoData" /\ undefinedInputCalls = {})

\* C6: the render that switches a mounted TraceView from one trace id to another
\* hands the renderer per-trace state that is all fresh: nothing collapsed, no
\* detail open, no hover guide, the initial view range, no search match, and the
\* critical path of the new trace.
C6_TraceSwitchResetsState ==
  switched =>
     /\ rendered.childrenHiddenIDs = {}
     /\ rendered.detailStates = {}
     /\ rendered.hoverIndentGuideIds = {}
     /\ rendered.viewRange = InitialViewRange
     /\ rendered.spanFilterMatches = {}
     /\ rendered.criticalPath = criticalPathForTrace(traceProp)

\* C9: the critical path handed to the renderer is that of the trace being
\* rendered; it is computed anew exactly in the renders whose trace object is
\* not the one of the render before.
C9_CriticalPathFollowsTrace ==
  Mounted =>
     /\ rendered.criticalPath = criticalPathForTrace(traceProp)
     /\ criticalPathComputed = ~sameTraceObject

\* A re-render of a displayed trace after a callback changed hook state: the
\* path is the trace's and was not computed again.
C9_Witness ==
  /\ rendered.view = "Trace"
  /\ sameTraceObject /\ ~criticalPathComputed
  /\ childrenHiddenIDs # {}
  /\ traceID(traceProp) = 2
  /\ rendered.criticalPath = criticalPathForTrace(traceProp)
  /\ rendered.criticalPath # criticalPathForTrace(1)

\* C10: expandAll() followed by collapseAll(roots) leaves the hidden-id set that
\* collapseAll(roots) alone makes of the set expandAll() started from.
C10_ExpandThenCollapse ==
  lastCollapse.op = "expandAll;collapseAll" => childrenHiddenIDs = lastCollapse.set

\* Started from a set that collapseAll(roots) does not cover.
C10_Witness ==
  /\ lastCollapse.op = "expandAll;collapseAll"
  /\ childrenHiddenIDs # {}
  /\ ~(lastCollapse.from \subseteq childrenHiddenIDs)
  /\ childrenHiddenIDs = lastCollapse.set


\* ---------------------------------------------------------------- OrgUsersTable

\* C7: a failed role-options fetch (fetchRoleOptions rejects, or the permission
\* check throws) is logged and leaves roleOptions as it was; until a fetch has
\* resolved roleOptions is the empty list.
C7_FailedFetchKeepsRoleOptions ==
  /\ lastFetch.kind \in {"rejected", "threw"} =>
       (lastFetch.logged /\ roleOptions = lastFetch.before)
  /\ ~anyResolved => roleOptions = <<>>

\* A fetch that fails after an earlier one has filled roleOptions.
C7_Witness ==
  /\ lastFetch.kind = "rejected"
  /\ lastFetch.logged
  /\ lastFetch.before # <<>>
  /\ roleOptions = lastFetch.before


\* ---------------------------------------------------------------- detail toggles

\* C11: a detail toggle flips the expanded flag of its key (span id, category,
\* sub-item id), and applying it twice in a row returns the key to the value it
\* had before; a key that is absent from detailStates reads as collapsed.
C11_DetailToggleInvolution ==
  /\ lastToggle.count = 1 => isExpanded(detailStates, lastToggle.key) # lastToggle.orig
  /\ lastToggle.count = 2 => isExpanded(detailStates, lastToggle.key) = lastToggle.orig

\* A sub-item key toggled twice, back to expanded, its sibling still collapsed.
C11_Witness ==
  /\ lastToggle.count = 2
  /\ lastToggle.key = DetailKey(DetailSpan, "logItem", 1)
  /\ lastToggle.orig
  /\ isExpanded(detailStates, lastToggle.key)
  /\ ~isExpanded(detailStates, DetailKey(DetailSpan, "logItem", 2))


\* ------------------------------------------------------------------------ search

\* C12: the match set handed to the page header and the timeline is the one
\* derived from the current query and the spans of the current trace, and it is
\* empty whenever the query is "", in particular after setSearch("") on a
\* non-empty trace.
C12_MatchesFollowQuery ==
  Mounted =>
    /\ rendered.spanFilterMatches = spanFilterMatches(search, traceProp)
    /\ search = "" => rendered.spanFilterMatches = {}

\* setSearch("") was just called on a displayed trace that has matches for the
\* other query.
C12_Witness ==
  /\ searchCleared
  /\ rendered.view = "Trace"
  /\ search = ""
  /\ spanFilterMatches("get", traceProp) # {}
  /\ rendered.spanFilterMatches = {}


\* -------------------------------------------------------------------- view range

\* C13: updateNextViewRangeTime stages a pending range and leaves the committed
\* range as it was; updateViewRangeTime commits its range and clears the pending
\* one; the view range handed to the consumers carries both, so they can tell
\* the committed range from the pending one.
C13_StageThenCommit ==
  /\ lastRangeOp.op = "updateNextViewRangeTime" =>
       /\ viewRange.current = lastRangeOp.before.current
       /\ viewRange.next = lastRangeOp.range
  /\ lastRangeOp.op = "updateViewRangeTime" =>
       /\ viewRange.current = lastRangeOp.range
       /\ viewRange.next = <<>>
  /\ lastRangeOp.op # "none" => rendered.viewRange = viewRange

\* A range other than the committed one is staged over an earlier pending one.
C13_Witness ==
  /\ lastRangeOp.op = "updateNextViewRangeTime"
  /\ lastRangeOp.before.next # <<>>
  /\ lastRangeOp.range # lastRangeOp.before.current
  /\ viewRange.next # viewRange.current
  /\ rendered.viewRange.next = lastRangeOp.range


\* ------------------------------------------------------------- removal of a user

\* C14: onRemoveUser is called only by a confirm click while the modal is open,
\* and with the user the modal is open for; it is called at most once per click
\* on a delete button; a dismiss click never calls it; after a confirm or a
\* dismiss click userToRemove is null and the modal is closed, and after a
\* delete click the modal is open for the user of the row.
C14_RemoveNeedsConfirm ==
  /\ removeCalls <= deleteClicks
  /\ lastRemoveEvent.called # NoUser =>
       /\ lastRemoveEvent.kind = "confirm"
       /\ lastRemoveEvent.called = lastRemoveEvent.openFor
  /\ lastRemoveEvent.kind = "confirm" =>
       /\ lastRemoveEvent.called # NoUser
       /\ userToRemove = NoUser
       /\ ~ModalOpen(userToRemove)
  /\ lastRemoveEvent.kind = "dismiss" =>
       /\ lastRemoveEvent.called = NoUser
       /\ userToRemove = NoUser
       /\ ~ModalOpen(userToRemove)
  /\ lastRemoveEvent.kind = "delete" =>
       /\ lastRemoveEvent.called = NoUser
       /\ userToRemove = lastRemoveEvent.user
       /\ ModalOpen(userToRemove)

\* The second user is removed after a removal that was dismissed and one that
\* was confirmed.
C14_Witness ==
  /\ lastRemoveEvent.kind = "confirm"
  /\ lastRemoveEvent.called = 2
  /\ removeCalls = 2
  /\ deleteClicks = 3
  /\ userToRemove = NoUser


\* ------------------------------------------------------ role options of the orgId

\* C15: when orgId changes while the fetch of an earlier orgId is in flight,
\* then once every fetch that was started has resolved, roleOptions holds the
\* options fetched for the most recent orgId, whatever the order the fetches
\* resolved in.
C15_LatestOrgIdWins ==
  (/\ mounted
   /\ contextSrv = IdleContextSrv
   /\ pendingFetches = <<>>
   /\ ~anyRejected)
    => roleOptions = RoleOptionsOf(orgId)


\* ---------------------------------------------------------- basic role disabled

\* The first auth label of the user, '' when there is none.
FirstAuthLabel ==
  IF rowUser.authLabels.isArray /\ rowUser.authLabels.labels # <<>>
  THEN Head(rowUser.authLabels.labels) ELSE ""

\* C16: the role picker of a row is disabled exactly when the user lacks
\* OrgUsersWrite, or is externally synced and either the first auth label is not
\* 'grafana.com' or gcomOnlyExternalOrgRoleSync is on; the info tooltip is shown
\* exactly when the role picker is disabled.
C16_BasicRoleDisabled ==
  renderedRow.present =>
    /\ renderedRow.role.disabled
         <=> \/ ~rowUser.canWrite
             \/ /\ rowUser.isExternallySynced = "true"
                /\ \/ FirstAuthLabel # "grafana.com"
                   \/ featureToggles.gcomOnlyExternalOrgRoleSync = "true"
    /\ renderedRow.info <=> renderedRow.role.disabled

\* A user synced from grafana.com, with write permission, while the feature
\* toggle is off: the role stays editable and no tooltip is shown.
C16_Witness ==
  /\ renderedRow.present
  /\ rowUser.canWrite
  /\ rowUser.isExternallySynced = "true"
  /\ FirstAuthLabel = "grafana.com"
  /\ Len(rowUser.authLabels.labels) = 2
  /\ featureToggles.gcomOnlyExternalOrgRoleSync # "true"
  /\ ~renderedRow.role.disabled
  /\ ~renderedRow.info


\* ------------------------------------------------------ CorrelationFormNavigation

\* C17: Back is displayed exactly when currentPage > 0; a page that is not the
\* last displays exactly one enabled 'Next' submit button whatever readOnly is;
\* the last page displays a submit button exactly when the form is not
\* readOnly, disabled exactly when loading, labelled 'Add' when there is no
\* correlation and 'Save' otherwise.
C17_NavigationButtons ==
  renderedNav.present =>
    /\ renderedNav.back <=> wizard.currentPage > 0
    /\ wizard.currentPage # wizard.numPages - 1 =>
         renderedNav.submit = [present |-> TRUE, label |-> "Next", disabled |-> FALSE]
    /\ wizard.currentPage = wizard.numPages - 1 =>
         /\ renderedNav.submit.present <=> ~formContext.readOnly
         /\ renderedNav.submit.present =>
              /\ renderedNav.submit.disabled <=> formContext.loading
              /\ formContext.correlation = Undefined => renderedNav.submit.label = "Add"
              /\ formContext.correlation # Undefined => renderedNav.submit.label = "Save"

\* The last of several pages of a read-only form, reached with Next: Back and no
\* submit button.
C17_Witness ==
  /\ renderedNav.present
  /\ lastNavEvent = "next"
  /\ wizard.numPages > 1
  /\ wizard.currentPage = wizard.numPages - 1
  /\ formContext.readOnly
  /\ renderedNav.back
  /\ ~renderedNav.submit.present


\* ------------------------------------------------------------- focus state write

\* A same-trace click on a focus link: the click handler dispatched.
FocusClickStep == ~renderPending /\ renderPending' /\ lastClick'.kind = "focus"
\* The span id the last focus click wrote.
WrittenSpanId == lastClick.dispatch[Len(lastClick.dispatch)].state.spanId

\* C18: a same-trace focus click changes only the spanId of the trace panel state
\* of the hook's pane: the other fields of that panel state are carried over,
\* the pane's queries and the other panes are untouched; and the focusedSpanId
\* the hook returns on the next render is the spanId that was written last.
C18_FocusWritesOnlySpanId ==
  /\ [][FocusClickStep =>
          /\ \A id \in ExploreIds \ {exploreId} : panes'[id] = panes[id]
          /\ panes'[exploreId].queries = panes[exploreId].queries
          /\ panes'[exploreId].trace.other = panes[exploreId].trace.other
          /\ panes'[exploreId].trace.other = panelState.other
          /\ panes'[exploreId].trace.spanId
               = lastClick'.dispatch[Len(lastClick'.dispatch)].state.spanId]_vars
  /\ []((lastClick.kind = "focus" /\ ~renderPending) =>
          /\ focusedSpanId = WrittenSpanId
          /\ focusedSpanId = panes[exploreId].trace.spanId)

\* After a focus click and the render that follows it: the focus is the clicked
\* span, the other field of the panel state is still there, and the other pane
\* holds a trace panel state of its own.
C18_Witness ==
  /\ lastClick.kind = "focus"
  /\ ~renderPending
  /\ lastClick.before.other = "kept"
  /\ lastClick.before.spanId # lastClick.spanId
  /\ panes[exploreId].trace.other = "kept"
  /\ focusedSpanId = lastClick.spanId
  /\ \E id \in ExploreIds \ {exploreId} : panes[id].trace.present

====
